---- MODULE Spec2Model ----
(***************************************************************************)
(* Task-management application: the Category service (Express routes over  *)
(* a Mongoose model), the Task model and service, and the React client's   *)
(* handlers and view filter.                                               *)
(*                                                                         *)
(* JavaScript strings are sequences of one-character strings, so that      *)
(* toLowerCase and trim are computed, not assumed.  A JavaScript value     *)
(* that need not be a string is a record [t |-> type, v |-> value].        *)
(***************************************************************************)
EXTENDS Integers, Sequences, FiniteSets, TLC

VARIABLES
    categories,   \* the Category collection, in natural (insertion) order
    handlers,     \* the Category routes' requests in progress, one per slot
    response,     \* the response a route has just written, if any
    tasksDb,      \* the Task collection, in natural (insertion) order
    nextTaskId,   \* the next ObjectId the store gives a Task
    tasks,        \* client: the task list (useState tasks)
    newTask,      \* client: the Add Task form
    editingTask,  \* client: the task being edited, or NoEdit (null)
    isSubmitting, \* client: a form submission is in progress
    toast,        \* client: the notification raised last
    activeTab,    \* client: the tab selected (useState activeTab)
    searchQuery,  \* client: the text of the search box
    clientCategories, \* client: the category list (useState categories)
    newCategory,  \* client: the text of the Add Category dialog
    now,          \* the current instant, in hours
    zone,         \* the time zone of the browser
    calls         \* client: the API calls awaited, one per slot

catVars    == <<categories, handlers>>
taskVars   == <<tasksDb, nextTaskId>>
clientVars == <<tasks, newTask, editingTask, isSubmitting, toast>>
viewVars   == <<activeTab, searchQuery>>
categoryVars == <<clientCategories, newCategory>>
envVars    == <<now, zone>>
vars == <<categories, handlers, response, tasksDb, nextTaskId,
          tasks, newTask, editingTask, isSubmitting, toast, calls,
          activeTab, searchQuery, clientCategories, newCategory, now, zone>>

----------------------------------------------------------------------------
(* Strings *)

\* String.prototype.toLowerCase, one character.
LowerChar(ch) ==
    CASE ch = "A" -> "a"
      [] ch = "B" -> "b"
      [] ch = "C" -> "c"
      [] ch = "D" -> "d"
      [] ch = "W" -> "w"
      [] OTHER -> ch

toLowerCase(s) == [i \in 1..Len(s) |-> LowerChar(s[i])]

IsWhitespace(ch) == ch = " "

RECURSIVE TrimStart(_)
TrimStart(s) ==
    IF s # <<>> /\ IsWhitespace(Head(s)) THEN TrimStart(Tail(s)) ELSE s

RECURSIVE TrimEnd(_)
TrimEnd(s) ==
    IF s # <<>> /\ IsWhitespace(s[Len(s)])
    THEN TrimEnd(SubSeq(s, 1, Len(s) - 1))
    ELSE s

\* String.prototype.trim
trim(s) == TrimEnd(TrimStart(s))

\* UTF-16 code unit order of the characters the model uses.
CharCode(ch) ==
    CASE ch = " " -> 32
      [] ch = "A" -> 65
      [] ch = "B" -> 66
      [] ch = "C" -> 67
      [] ch = "D" -> 68
      [] ch = "W" -> 87
      [] ch = "a" -> 97
      [] ch = "b" -> 98
      [] ch = "c" -> 99
      [] ch = "d" -> 100
      [] ch = "w" -> 119
      [] OTHER -> 0

\* s sorts strictly before t (MongoDB's simple binary string comparison).
RECURSIVE StrLess(_, _)
StrLess(s, t) ==
    IF t = <<>> THEN FALSE
    ELSE IF s = <<>> THEN TRUE
    ELSE IF CharCode(Head(s)) # CharCode(Head(t))
         THEN CharCode(Head(s)) < CharCode(Head(t))
         ELSE StrLess(Tail(s), Tail(t))

Str(s)     == [t |-> "string", v |-> s]
Undefined  == [t |-> "undefined", v |-> <<>>]
Num        == [t |-> "number", v |-> <<>>]

----------------------------------------------------------------------------
(* The Category model (categorySchema) and the store's operations on it *)

NoDoc == [_id |-> 0, name |-> <<>>]

\* (variant) the schema lowercases and does not trim
CastNameNoTrim(s) == toLowerCase(s)

\* The String setters of categorySchema.name: trim, then lowercase.  Mongoose
\* applies them when a document's path is set and when a query filter on the
\* path is cast.
CastName(s) == toLowerCase(trim(s))

\* (variant) the filter value is compared as given, not cast by the schema
findOneUncast(coll, s) ==
    LET hits == {i \in 1..Len(coll) : coll[i].name = s}
    IN IF hits = {} THEN NoDoc
       ELSE coll[CHOOSE i \in hits : \A j \in hits : i <= j]

\* Category.findOne({ name: s }): the first document whose name is the filter
\* value as cast by the schema, or NoDoc (null).
findOne(coll, s) ==
    LET hits == {i \in 1..Len(coll) : coll[i].name = CastName(s)}
    IN IF hits = {} THEN NoDoc
       ELSE coll[CHOOSE i \in hits : \A j \in hits : i <= j]

\* An ObjectId no stored document and no request in progress holds.
FreshId(coll, hs) ==
    LET used == {coll[i]._id : i \in 1..Len(coll)}
                \cup {hs[h].found : h \in DOMAIN hs}
    IN CHOOSE n \in 1..(Cardinality(used) + 1) : n \notin used

\* (variant) name is not required
ValidCategoryAny(doc) == TRUE

\* required: true on a String path: null, undefined and "" are invalid.
ValidCategory(doc) == doc.name # <<>>

\* (variant) the unique index is missing
NoUniqueIndex(coll, doc) == TRUE

\* unique: true: the unique index on name refuses a second document with a
\* name already stored (E11000 duplicate key).
UniqueIndexAllows(coll, doc) ==
    \A i \in 1..Len(coll) : coll[i].name # doc.name

\* (variant) save() of a schema that declares no unique index
saveNotUnique(coll, id, s) ==
    LET doc == [_id |-> id, name |-> CastName(s)]
    IN IF ~ValidCategory(doc)
       THEN [ok |-> FALSE, err |-> "ValidationError", coll |-> coll, doc |-> NoDoc]
       ELSE [ok |-> TRUE, err |-> "", coll |-> Append(coll, doc), doc |-> doc]

\* new Category({ name: s }).save(): the outcome and the collection after it.
save(coll, id, s) ==
    LET doc == [_id |-> id, name |-> CastName(s)]
    IN IF ~ValidCategory(doc)
       THEN [ok |-> FALSE, err |-> "ValidationError", coll |-> coll, doc |-> NoDoc]
       ELSE IF ~UniqueIndexAllows(coll, doc)
       THEN [ok |-> FALSE, err |-> "E11000 duplicate key", coll |-> coll, doc |-> NoDoc]
       ELSE [ok |-> TRUE, err |-> "", coll |-> Append(coll, doc), doc |-> doc]

\* Category.findByIdAndDelete(id)
findByIdAndDelete(coll, id) == SelectSeq(coll, LAMBDA d : d._id # id)

\* (variant) find() without the sort: natural order
NaturalNames(coll) == [i \in 1..Len(coll) |-> coll[i].name]

\* Category.find().sort({ name: 1 }) followed by map(category => category.name)
RECURSIVE SortedNames(_)
SortedNames(coll) ==
    IF coll = <<>> THEN <<>>
    ELSE LET m == CHOOSE i \in 1..Len(coll) :
                    \A j \in 1..Len(coll) :
                        ~StrLess(coll[j].name, coll[i].name)
                        /\ (coll[j].name = coll[i].name => i <= j)
             rest == [k \in 1..(Len(coll) - 1) |->
                        IF k < m THEN coll[k] ELSE coll[k + 1]]
         IN <<coll[m].name>> \o SortedNames(rest)

----------------------------------------------------------------------------
(* The Category routes.  A handler runs up to each await as one step; the   *)
(* store executes one operation at a time; handlers of different requests   *)
(* interleave at their awaits.                                              *)

NumHandlers == 2
Handlers == 1..NumHandlers

\* req.body.name of the POST requests tried: absent, not a string, strings.
NameStrings == { <<>>, <<" ">>, <<"a">>, <<"A">>, <<" ", "A">>, <<"b">> }
PostBodies == {Undefined, Num} \cup {Str(s) : s \in NameStrings}

Idle == [op |-> "none", pc |-> "idle", arg |-> Undefined, found |-> 0]

NoResponse == [h |-> 0, to |-> 0, op |-> "none", arg |-> Undefined, status |-> 0,
               message |-> "", doc |-> NoDoc, list |-> <<>>]

\* A handler step runs when the response written before it has gone out.
Ready(h, pc) == handlers[h].pc = pc /\ response = NoResponse

\* res.status(code).json(...): the request's one response; the handler ends.
Respond(h, op, arg, code, msg, doc, list) ==
    /\ response' = [h |-> h, to |-> 0, op |-> op, arg |-> arg, status |-> code,
                    message |-> msg, doc |-> doc, list |-> list]
    /\ handlers' = [handlers EXCEPT ![h] = Idle]

\* The handler goes on to its next await.
Continue(h, op, pc, arg, found) ==
    /\ handlers' = [handlers EXCEPT ![h] =
                       [op |-> op, pc |-> pc, arg |-> arg, found |-> found]]
    /\ UNCHANGED response

\* A client call that awaits nothing.
NoCall == [kind |-> "none", phase |-> "idle", id |-> 0, body |-> [none |-> TRUE],
           status |-> 0, doc |-> NoDoc, list |-> <<>>]

\* The client call a response answers: the one the Task service names, or
\* the one whose request the responding Category handler took up.
Answered ==
    IF response.to # 0
    THEN {c \in DOMAIN calls : c = response.to /\ calls[c].phase = "served"}
    ELSE {c \in DOMAIN calls : /\ calls[c].kind \in {"fetchCategories", "addCategory"}
                               /\ calls[c].phase = "served"
                               /\ calls[c].id = response.h}

\* The response leaves the server, and reaches the client call it answers
\* (none, when the request came from elsewhere or is awaited no more).
Sent ==
    /\ response # NoResponse
    /\ response' = NoResponse
    /\ calls' = [c \in DOMAIN calls |->
                    IF c \in Answered
                    THEN [calls[c] EXCEPT !.phase = "replied", !.status = response.status,
                                          !.doc = response.doc, !.list = response.list]
                    ELSE calls[c]]
    /\ UNCHANGED <<viewVars, categoryVars, envVars, catVars, taskVars, clientVars>>

\* GET /: the whole handler (one await).
GetCategoriesStep(h, storeUp) ==
    /\ Ready(h, "idle")
    /\ IF storeUp
       THEN Respond(h, "get", Undefined, 200, "", NoDoc, SortedNames(categories))
       ELSE Respond(h, "get", Undefined, 500, "store error", NoDoc, <<>>)
    /\ UNCHANGED <<viewVars, categoryVars, envVars, categories, taskVars, clientVars>>

\* GET / of a request from elsewhere.
GetCategories(h, storeUp) == GetCategoriesStep(h, storeUp) /\ UNCHANGED calls

\* POST /, up to the end of the first await (findOne).
PostFindOneStep(h, body, storeUp) ==
    /\ Ready(h, "idle")
    /\ IF body.t # "string"
       THEN \* req.body.name.toLowerCase() throws a TypeError
            Respond(h, "post", body, 400, "TypeError", NoDoc, <<>>)
       ELSE IF ~storeUp
       THEN Respond(h, "post", body, 400, "store error", NoDoc, <<>>)
       ELSE IF findOne(categories, toLowerCase(body.v)) # NoDoc
       THEN Respond(h, "post", body, 400, "Category already exists", NoDoc, <<>>)
       ELSE Continue(h, "post", "save", body, 0)
    /\ UNCHANGED <<viewVars, categoryVars, envVars, categories, taskVars, clientVars>>

\* POST / of a request from elsewhere.
PostFindOne(h, body, storeUp) == PostFindOneStep(h, body, storeUp) /\ UNCHANGED calls

\* POST /, from new Category(...) to the response (second await: save).
PostSave(h, storeUp) ==
    /\ Ready(h, "save")
    /\ LET body == handlers[h].arg
           r == save(categories, FreshId(categories, handlers),
                     toLowerCase(body.v))
       IN IF ~storeUp
          THEN /\ Respond(h, "post", body, 400, "store error", NoDoc, <<>>)
               /\ UNCHANGED categories
          ELSE IF r.ok
          THEN /\ categories' = r.coll
               /\ Respond(h, "post", body, 201, "", r.doc, <<>>)
          ELSE /\ Respond(h, "post", body, 400, r.err, NoDoc, <<>>)
               /\ UNCHANGED categories
    /\ UNCHANGED <<viewVars, categoryVars, envVars, taskVars, clientVars, calls>>

\* DELETE /:name, up to the end of the first await (findOne).
DeleteFindOne(h, name, storeUp) ==
    /\ Ready(h, "idle")
    /\ LET category == findOne(categories, toLowerCase(name))
       IN IF ~storeUp
          THEN Respond(h, "delete", Str(name), 500, "store error", NoDoc, <<>>)
          ELSE IF category = NoDoc
          THEN Respond(h, "delete", Str(name), 404, "Category not found", NoDoc, <<>>)
          ELSE Continue(h, "delete", "remove", Str(name), category._id)
    /\ UNCHANGED <<viewVars, categoryVars, envVars, categories, taskVars, clientVars, calls>>

\* (variant) the delete cascades to the Tasks of the category
DeleteByIdCascade(h, storeUp) ==
    /\ Ready(h, "remove")
    /\ IF storeUp
       THEN /\ categories' = findByIdAndDelete(categories, handlers[h].found)
            /\ tasksDb' = SelectSeq(tasksDb, LAMBDA d :
                              \A i \in 1..Len(categories) :
                                  categories[i]._id = handlers[h].found
                                      => d.category # categories[i].name)
            /\ Respond(h, "delete", handlers[h].arg, 200, "Category deleted", NoDoc, <<>>)
       ELSE /\ Respond(h, "delete", handlers[h].arg, 500, "store error", NoDoc, <<>>)
            /\ UNCHANGED <<categories, tasksDb>>
    /\ UNCHANGED <<viewVars, categoryVars, envVars, nextTaskId, clientVars, calls>>

\* DELETE /:name, from findByIdAndDelete to the response.
DeleteById(h, storeUp) ==
    /\ Ready(h, "remove")
    /\ IF storeUp
       THEN /\ categories' = findByIdAndDelete(categories, handlers[h].found)
            /\ Respond(h, "delete", handlers[h].arg, 200, "Category deleted", NoDoc, <<>>)
       ELSE /\ Respond(h, "delete", handlers[h].arg, 500, "store error", NoDoc, <<>>)
            /\ UNCHANGED categories
    /\ UNCHANGED <<viewVars, categoryVars, envVars, taskVars, clientVars, calls>>

----------------------------------------------------------------------------

(* The Task model (taskSchema) *)

Null     == [t |-> "null", v |-> 0]
Date(n)  == [t |-> "date", v |-> n]
\* A Date as JSON carries it: its ISO-8601 string.
Iso(n)   == [t |-> "iso", v |-> n]

personal == <<"p", "e", "r", "s", "o", "n", "a", "l">>

\* The paths a request may set, and the values the schema's enum admits.
TaskPaths  == {"title", "description", "completed", "priority", "dueDate", "category"}
Priorities == {"low", "medium", "high"}

\* (variant) another default priority
TaskDefaultsLow(id, t) ==
    [_id |-> id, completed |-> FALSE, priority |-> "low", dueDate |-> Null,
     category |-> personal, createdAt |-> Date(t)]

\* A document as new Task() starts it: the schema's defaults; title and
\* description have none.
TaskDefaults(id, t) ==
    [_id |-> id, completed |-> FALSE, priority |-> "medium", dueDate |-> Null,
     category |-> personal, createdAt |-> Date(t)]

\* Date cast of a JSON value: null stays null, an ISO string becomes a Date.
CastDate(v) == IF v.t = "null" THEN Null ELSE Date(v.v)

\* The schema's cast of one path: trim on title and description.
CastPath(f, v) ==
    CASE f \in {"title", "description"} -> trim(v)
      [] f = "dueDate" -> CastDate(v)
      [] OTHER -> v

\* doc with the paths of body set (the paths of the schema a request may set).
SetPaths(doc, body) ==
    LET set == DOMAIN body \cap TaskPaths
    IN [f \in DOMAIN doc \cup set |->
           IF f \in set THEN CastPath(f, body[f]) ELSE doc[f]]

\* (variant) the enum on priority is not declared
ValidTaskNoEnum(doc) == "title" \in DOMAIN doc /\ doc.title # <<>>

\* Validation: title required (absent and "" are invalid), priority in the enum.
ValidTask(doc) ==
    /\ "title" \in DOMAIN doc
    /\ doc.title # <<>>
    /\ doc.priority \in Priorities

\* A stored document as res.json sends it: Dates as ISO strings.
ToJSON(doc) ==
    [f \in DOMAIN doc |->
        IF f \in {"dueDate", "createdAt"} /\ doc[f].t = "date"
        THEN Iso(doc[f].v) ELSE doc[f]]

----------------------------------------------------------------------------
(* The Task service: list, create, update, delete.  Each request is one     *)
(* step.                                                                    *)

MaxTasks == 2

\* The values Date.now takes.
MaxNow == 1
Clock == 0..MaxNow

HasTask(coll, id) == \E i \in 1..Len(coll) : coll[i]._id = id
TaskById(coll, id) == coll[CHOOSE i \in 1..Len(coll) : coll[i]._id = id]

NoBody == [none |-> TRUE]

\* The request of client call c (0: a request of another client) is served.
Served(c) ==
    calls' = IF c = 0 THEN calls ELSE [calls EXCEPT ![c].phase = "served"]

TaskRespond(c, op, id, body, code, msg, doc, list) ==
    /\ response' = [h |-> 0, to |-> c, op |-> op, arg |-> [id |-> id, body |-> body],
                    status |-> code, message |-> msg, doc |-> doc, list |-> list]
    /\ Served(c)

\* The body of a GET /tasks response: every stored Task, in store order.
ListJSON(coll) == [i \in 1..Len(coll) |-> ToJSON(coll[i])]

\* GET /tasks
TaskList(c) ==
    /\ response = NoResponse
    /\ TaskRespond(c, "tasks.get", 0, NoBody, 200, "", NoDoc, ListJSON(tasksDb))
    /\ UNCHANGED <<viewVars, categoryVars, envVars, catVars, taskVars, clientVars>>

\* POST /tasks, at time t
TaskCreate(c, body, t) ==
    /\ response = NoResponse
    /\ nextTaskId <= MaxTasks
    /\ LET doc == SetPaths(TaskDefaults(nextTaskId, t), body)
       IN IF ValidTask(doc)
          THEN /\ tasksDb' = Append(tasksDb, doc)
               /\ nextTaskId' = nextTaskId + 1
               /\ TaskRespond(c, "tasks.post", 0, body, 201, "", ToJSON(doc), <<>>)
          ELSE /\ TaskRespond(c, "tasks.post", 0, body, 400, "ValidationError", NoDoc, <<>>)
               /\ UNCHANGED <<tasksDb, nextTaskId>>
    /\ UNCHANGED <<viewVars, categoryVars, envVars, catVars, clientVars>>

\* PATCH /tasks/{id}
TaskUpdate(c, id, body) ==
    /\ response = NoResponse
    /\ IF ~HasTask(tasksDb, id)
       THEN /\ TaskRespond(c, "tasks.patch", id, body, 404, "Task not found", NoDoc, <<>>)
            /\ UNCHANGED tasksDb
       ELSE LET doc == SetPaths(TaskById(tasksDb, id), body)
            IN IF ValidTask(doc)
               THEN /\ tasksDb' = [i \in 1..Len(tasksDb) |->
                                     IF tasksDb[i]._id = id THEN doc ELSE tasksDb[i]]
                    /\ TaskRespond(c, "tasks.patch", id, body, 200, "", ToJSON(doc), <<>>)
               ELSE /\ TaskRespond(c, "tasks.patch", id, body, 400, "ValidationError", NoDoc, <<>>)
                    /\ UNCHANGED tasksDb
    /\ UNCHANGED <<viewVars, categoryVars, envVars, catVars, nextTaskId, clientVars>>

\* DELETE /tasks/{id}
TaskDelete(c, id) ==
    /\ response = NoResponse
    /\ IF ~HasTask(tasksDb, id)
       THEN /\ TaskRespond(c, "tasks.delete", id, NoBody, 404, "Task not found", NoDoc, <<>>)
            /\ UNCHANGED tasksDb
       ELSE /\ tasksDb' = SelectSeq(tasksDb, LAMBDA d : d._id # id)
            /\ TaskRespond(c, "tasks.delete", id, NoBody, 200, "Task deleted", NoDoc, <<>>)
    /\ UNCHANGED <<viewVars, categoryVars, envVars, catVars, nextTaskId, clientVars>>

----------------------------------------------------------------------------
(* The client: services/api.ts and the App component's handlers.  A handler *)
(* runs up to its await as one step and resumes, as another step, when the  *)
(* call's response has arrived.                                             *)

MaxCalls == 3
Calls == 1..MaxCalls

\* JSON.stringify of a request body: Dates become ISO strings.
ToWire(obj) ==
    [f \in DOMAIN obj |->
        IF f \in {"dueDate", "createdAt"} /\ obj[f].t = "date"
        THEN Iso(obj[f].v) ELSE obj[f]]

\* createTask / updateTask / fetchTasks: the task of a response, dueDate and
\* createdAt parsed back to Dates (a null dueDate stays null).
ParseTask(json) ==
    [f \in DOMAIN json |->
        IF f = "dueDate" THEN (IF json[f].t = "null" THEN Null ELSE Date(json[f].v))
        ELSE IF f = "createdAt" THEN Date(json[f].v)
        ELSE json[f]]

fetchTasks(list) == [i \in 1..Len(list) |-> ParseTask(list[i])]

\* The Add Task form as useState starts it and as a successful add resets it.
EmptyForm ==
    [title |-> <<>>, description |-> <<>>, completed |-> FALSE,
     priority |-> "medium", dueDate |-> Null, category |-> personal]

NoEdit == [none |-> TRUE]

\* toast({ ..., variant }): the variant of the notification raised last.
NoToast      == "none"
ErrorToast   == "destructive"
SuccessToast == "default"

\* (variant) the guard tests the title as typed
TitleEmptyUntrimmed(title) == title = <<>>

\* !title.trim()
TitleEmpty(title) == trim(title) = <<>>

\* (variant) the whole edited task is sent
WholeTask(task) == task

\* const { _id, createdAt, ...taskData } = editingTask
TaskData(task) == [f \in DOMAIN task \ {"_id", "createdAt"} |-> task[f]]

Call(kind, id, body) ==
    [kind |-> kind, phase |-> "sent", id |-> id, body |-> body,
     status |-> 0, doc |-> NoDoc, list |-> <<>>]

FreeCall(c) == calls[c] = NoCall
Replied(c, kind) == calls[c].kind = kind /\ calls[c].phase = "replied"
\* (variant) every response resolves the call
ResolvedAlways(c) == TRUE

\* axios resolves on a 2xx status and rejects otherwise.
Resolved(c) == calls[c].status \in {200, 201}

ReplaceById(list, task) ==
    [i \in 1..Len(list) |-> IF list[i]._id = task._id THEN task ELSE list[i]]

\* The user fills in the Add Task form.
SetNewTask(form) ==
    /\ newTask' = form
    /\ UNCHANGED <<viewVars, categoryVars, envVars, catVars, taskVars, response, calls,
                   tasks, editingTask, isSubmitting, toast>>

\* handleAddTask, up to await createTask(newTask).  The button is disabled
\* while isSubmitting.
HandleAddTask(c) ==
    /\ ~isSubmitting
    /\ IF TitleEmpty(newTask.title)
       THEN /\ toast' = ErrorToast
            /\ UNCHANGED <<calls, isSubmitting>>
       ELSE /\ FreeCall(c)
            /\ isSubmitting' = TRUE
            /\ calls' = [calls EXCEPT ![c] = Call("add", 0, ToWire(newTask))]
            /\ UNCHANGED toast
    /\ UNCHANGED <<viewVars, categoryVars, envVars, catVars, taskVars, response, tasks, newTask, editingTask>>

\* handleAddTask, from the settled createTask to its end.
AddTaskSettled(c) ==
    /\ Replied(c, "add")
    /\ IF Resolved(c)
       THEN /\ tasks' = <<ParseTask(calls[c].doc)>> \o tasks
            /\ newTask' = EmptyForm
            /\ toast' = SuccessToast
       ELSE /\ toast' = ErrorToast
            /\ UNCHANGED <<tasks, newTask>>
    /\ isSubmitting' = FALSE
    /\ calls' = [calls EXCEPT ![c] = NoCall]
    /\ UNCHANGED <<viewVars, categoryVars, envVars, catVars, taskVars, response, editingTask>>

\* toggleTaskCompletion(task._id, task.completed) of the i-th task shown, up
\* to await updateTask.
ToggleTaskCompletion(c, i) ==
    /\ i \in 1..Len(tasks)
    /\ FreeCall(c)
    /\ calls' = [calls EXCEPT ![c] =
                    Call("toggle", tasks[i]._id, [completed |-> ~tasks[i].completed])]
    /\ UNCHANGED <<viewVars, categoryVars, envVars, catVars, taskVars, response, clientVars>>

\* toggleTaskCompletion, from the settled updateTask to its end.
ToggleSettled(c) ==
    /\ Replied(c, "toggle")
    /\ IF Resolved(c)
       THEN /\ tasks' = ReplaceById(tasks, ParseTask(calls[c].doc))
            /\ toast' = SuccessToast
       ELSE /\ toast' = ErrorToast
            /\ UNCHANGED tasks
    /\ calls' = [calls EXCEPT ![c] = NoCall]
    /\ UNCHANGED <<viewVars, categoryVars, envVars, catVars, taskVars, response, newTask, editingTask, isSubmitting>>

\* handleDeleteTask(task._id) of the i-th task shown, up to await deleteTask.
HandleDeleteTask(c, i) ==
    /\ i \in 1..Len(tasks)
    /\ FreeCall(c)
    /\ calls' = [calls EXCEPT ![c] = Call("delete", tasks[i]._id, NoBody)]
    /\ UNCHANGED <<viewVars, categoryVars, envVars, catVars, taskVars, response, clientVars>>

\* handleDeleteTask, from the settled deleteTask to its end.
DeleteSettled(c) ==
    /\ Replied(c, "delete")
    /\ IF Resolved(c)
       THEN /\ tasks' = SelectSeq(tasks, LAMBDA t : t._id # calls[c].id)
            /\ toast' = SuccessToast
       ELSE /\ toast' = ErrorToast
            /\ UNCHANGED tasks
    /\ calls' = [calls EXCEPT ![c] = NoCall]
    /\ UNCHANGED <<viewVars, categoryVars, envVars, catVars, taskVars, response, newTask, editingTask, isSubmitting>>

\* startEditTask(task) of the i-th task shown.
StartEditTask(i) ==
    /\ i \in 1..Len(tasks)
    /\ editingTask' = tasks[i]
    /\ UNCHANGED <<viewVars, categoryVars, envVars, catVars, taskVars, response, calls,
                   tasks, newTask, isSubmitting, toast>>

\* The user changes one field in the edit dialog.
EditField(f, v) ==
    /\ editingTask # NoEdit
    /\ editingTask' = [g \in DOMAIN editingTask \cup {f} |->
                          IF g = f THEN v ELSE editingTask[g]]
    /\ UNCHANGED <<viewVars, categoryVars, envVars, catVars, taskVars, response, calls,
                   tasks, newTask, isSubmitting, toast>>

\* saveEditedTask, up to await updateTask(_id, taskData).
SaveEditedTask(c) ==
    /\ ~isSubmitting
    /\ editingTask # NoEdit
    /\ IF TitleEmpty(editingTask.title)
       THEN /\ toast' = ErrorToast
            /\ UNCHANGED <<calls, isSubmitting>>
       ELSE /\ FreeCall(c)
            /\ isSubmitting' = TRUE
            /\ calls' = [calls EXCEPT ![c] =
                            Call("edit", editingTask._id, ToWire(TaskData(editingTask)))]
            /\ UNCHANGED toast
    /\ UNCHANGED <<viewVars, categoryVars, envVars, catVars, taskVars, response, tasks, newTask, editingTask>>

\* saveEditedTask, from the settled updateTask to its end.
EditSettled(c) ==
    /\ Replied(c, "edit")
    /\ IF Resolved(c)
       THEN /\ tasks' = ReplaceById(tasks, ParseTask(calls[c].doc))
            /\ editingTask' = NoEdit
            /\ toast' = SuccessToast
       ELSE /\ toast' = ErrorToast
            /\ UNCHANGED <<tasks, editingTask>>
    /\ isSubmitting' = FALSE
    /\ calls' = [calls EXCEPT ![c] = NoCall]
    /\ UNCHANGED <<viewVars, categoryVars, envVars, catVars, taskVars, response, newTask>>

\* The Task service serves the request of client call c, at time t.
ServeCall(c, t) ==
    /\ calls[c].phase = "sent"
    /\ CASE calls[c].kind = "add" -> TaskCreate(c, calls[c].body, t)
         [] calls[c].kind \in {"toggle", "edit"} -> TaskUpdate(c, calls[c].id, calls[c].body)
         [] calls[c].kind = "delete" -> TaskDelete(c, calls[c].id)
         [] calls[c].kind = "fetchTasks" -> TaskList(c)
         [] OTHER -> FALSE

----------------------------------------------------------------------------
(* The client's category handler, the initial load, and failed requests *)

\* Array.prototype.includes
Includes(list, x) == \E i \in 1..Len(list) : list[i] = x

\* The user types in the Add Category dialog.
SetNewCategory(name) ==
    /\ newCategory' = name
    /\ UNCHANGED <<viewVars, envVars, catVars, taskVars, response, calls,
                   clientVars, clientCategories>>

\* handleAddCategory, up to await createCategory(newCategory).  The button is
\* disabled while isSubmitting.
HandleAddCategory(c) ==
    /\ ~isSubmitting
    /\ IF trim(newCategory) = <<>> \/ Includes(clientCategories, toLowerCase(newCategory))
       THEN /\ toast' = ErrorToast
            /\ UNCHANGED <<calls, isSubmitting>>
       ELSE /\ FreeCall(c)
            /\ isSubmitting' = TRUE
            /\ calls' = [calls EXCEPT ![c] = Call("addCategory", 0, Str(newCategory))]
            /\ UNCHANGED toast
    /\ UNCHANGED <<viewVars, categoryVars, envVars, catVars, taskVars, response,
                   tasks, newTask, editingTask>>

\* handleAddCategory, from the settled createCategory to its end; newCategory
\* in the closure is the text the request was made with.
AddCategorySettled(c) ==
    /\ Replied(c, "addCategory")
    /\ IF Resolved(c)
       THEN /\ clientCategories' =
                   Append(clientCategories, toLowerCase(calls[c].body.v))
            /\ newCategory' = <<>>
            /\ toast' = SuccessToast
       ELSE /\ toast' = ErrorToast
            /\ UNCHANGED <<clientCategories, newCategory>>
    /\ isSubmitting' = FALSE
    /\ calls' = [calls EXCEPT ![c] = NoCall]
    /\ UNCHANGED <<viewVars, envVars, catVars, taskVars, response,
                   tasks, newTask, editingTask>>

\* The call slots of loadData's two requests, and the slot of the handlers.
TasksCall      == 1
CategoriesCall == 2
HandlerCall    == 3

\* setLoading(true) ... finally setLoading(false)
Loading == calls[TasksCall] # NoCall \/ calls[CategoriesCall] # NoCall

\* fetchCategories
fetchCategories(resp) == resp.list

\* loadData, from the settled Promise.all to its end.  Promise.all resolves
\* when both requests have, and rejects as soon as one has.
LoadSettled ==
    /\ Loading
    /\ \/ /\ Replied(TasksCall, "fetchTasks") /\ Resolved(TasksCall)
          /\ Replied(CategoriesCall, "fetchCategories") /\ Resolved(CategoriesCall)
          /\ tasks' = fetchTasks(calls[TasksCall].list)
          /\ clientCategories' =
                 IF Len(fetchCategories(calls[CategoriesCall])) > 0
                 THEN fetchCategories(calls[CategoriesCall])
                 ELSE clientCategories
          /\ UNCHANGED toast
       \/ /\ \E c \in {TasksCall, CategoriesCall} :
                 calls[c].phase = "replied" /\ ~Resolved(c)
          /\ toast' = ErrorToast
          /\ UNCHANGED <<tasks, clientCategories>>
    /\ calls' = [calls EXCEPT ![TasksCall] = NoCall, ![CategoriesCall] = NoCall]
    /\ UNCHANGED <<viewVars, envVars, catVars, taskVars, response,
                   newTask, editingTask, isSubmitting, newCategory>>

\* The client's GET /categories reaches the route, in handler slot h.
FetchCategoriesServed(c, h, storeUp) ==
    /\ calls[c].kind = "fetchCategories" /\ calls[c].phase = "sent"
    /\ GetCategoriesStep(h, storeUp)
    /\ calls' = [calls EXCEPT ![c].phase = "served", ![c].id = h]

\* The client's POST /categories reaches the route, in handler slot h.
PostCategoryServed(c, h, storeUp) ==
    /\ calls[c].kind = "addCategory" /\ calls[c].phase = "sent"
    /\ PostFindOneStep(h, calls[c].body, storeUp)
    /\ calls' = [calls EXCEPT ![c].phase = "served", ![c].id = h]

\* The request never reaches the server: axios rejects.
NetworkError(c) ==
    /\ calls[c].phase = "sent"
    /\ response = NoResponse
    /\ calls' = [calls EXCEPT ![c].phase = "replied", ![c].status = 0]
    /\ UNCHANGED <<viewVars, categoryVars, envVars, catVars, taskVars, response, clientVars>>

----------------------------------------------------------------------------
(* The client's view filter *)

\* The values of the fixed tabs.
AllTab          == <<"a", "l", "l">>
ActiveTab       == <<"a", "c", "t", "i", "v", "e">>
CompletedTab    == <<"c", "o", "m", "p", "l", "e", "t", "e", "d">>
HighPriorityTab == <<"h", "i", "g", "h", "-", "p", "r", "i", "o", "r", "i", "t", "y">>
work            == <<"w", "o", "r", "k">>
shopping        == <<"s", "h", "o", "p", "p", "i", "n", "g">>
other           == <<"o", "t", "h", "e", "r">>

\* useState categories: the list the client starts with.
DefaultCategories == <<personal, work, shopping, other>>

\* const matchesTab = ... : the disjunction as the filter evaluates it.
matchesTab(task, tab) ==
    \/ tab = AllTab
    \/ (tab = CompletedTab /\ task.completed)
    \/ (tab = ActiveTab /\ ~task.completed)
    \/ (tab = HighPriorityTab /\ task.priority = "high")
    \/ tab = task.category

\* String.prototype.includes: q occurs in s (the empty string always does).
includes(s, q) ==
    \E i \in 0..(Len(s) - Len(q)) : SubSeq(s, i + 1, i + Len(q)) = q

\* task.description.toLowerCase() is reached only when the title does not
\* contain the query (|| short-circuits); on a task without a description it
\* throws a TypeError.
SearchThrows(task, q) ==
    /\ ~includes(toLowerCase(task.title), toLowerCase(q))
    /\ "description" \notin DOMAIN task

\* const matchesSearch = ...
matchesSearch(task, q) ==
    \/ includes(toLowerCase(task.title), toLowerCase(q))
    \/ includes(toLowerCase(task.description), toLowerCase(q))

\* const filteredTasks = tasks.filter(...): the callback computes matchesTab
\* and matchesSearch for every task in order; the render fails if one throws.
filteredTasks(list, tab, q) ==
    IF \E i \in 1..Len(list) : SearchThrows(list[i], q)
    THEN [threw |-> TRUE, view |-> <<>>]
    ELSE [threw |-> FALSE,
          view |-> SelectSeq(list, LAMBDA task :
                       matchesTab(task, tab) /\ matchesSearch(task, q))]

\* The user selects a tab (setActiveTab).
SetActiveTab(tab) ==
    /\ activeTab' = tab
    /\ UNCHANGED <<catVars, taskVars, response, clientVars, calls, searchQuery,
                   categoryVars, envVars>>

\* The user types in the search box (setSearchQuery).
SetSearchQuery(q) ==
    /\ searchQuery' = q
    /\ UNCHANGED <<catVars, taskVars, response, clientVars, calls, activeTab,
                   categoryVars, envVars>>

----------------------------------------------------------------------------
(* Due dates.  Instants are counted in hours.  Date.prototype.setHours works *)
(* in the browser's local time, where the day a clock change falls on has   *)
(* 23 or 25 hours.                                                          *)

MaxDay == 4
Days == 0..MaxDay

\* The day of the horizon on which the zone's clock changes, if it does.
ShiftDay == 1
Zones == {"utc", "spring", "autumn"}

\* The length of a local day, in hours.
DayHours(z, k) ==
    IF k # ShiftDay THEN 24
    ELSE CASE z = "spring" -> 23
           [] z = "autumn" -> 25
           [] OTHER -> 24

\* The instant of local midnight at the start of day k.
RECURSIVE Midnight(_, _)
Midnight(z, k) == IF k = 0 THEN 0 ELSE Midnight(z, k - 1) + DayHours(z, k - 1)

LastHour(z) == Midnight(z, MaxDay + 1) - 1

\* The local calendar day an instant falls on.
DayOf(z, h) == CHOOSE k \in Days : Midnight(z, k) <= h /\ h < Midnight(z, k + 1)

\* date.setHours(0, 0, 0, 0); date.getTime()
setHours0(z, h) == Midnight(z, DayOf(z, h))

\* getDueDateStatus; null is written "null".  diffDays = diffTime / 24 is not
\* rounded: diffDays < 0, === 0 and <= 2 are diffTime < 0, = 0 and <= 48.
getDueDateStatus(dueDate, today, z) ==
    IF dueDate = Null THEN "null"
    ELSE LET diffTime == setHours0(z, dueDate.v) - setHours0(z, today)
         IN  IF diffTime < 0 THEN "overdue"
             ELSE IF diffTime = 0 THEN "today"
             ELSE IF diffTime <= 2 * 24 THEN "soon"
             ELSE "future"

\* Time passes.
Tick ==
    /\ now < LastHour(zone)
    /\ now' = now + 1
    /\ UNCHANGED <<catVars, taskVars, response, clientVars, calls, viewVars,
                   categoryVars, zone>>

----------------------------------------------------------------------------

Init ==
    /\ categories = <<>>
    /\ handlers = [h \in Handlers |-> Idle]
    /\ response = NoResponse
    /\ tasksDb = <<>>
    /\ nextTaskId = 1
    /\ tasks = <<>>
    /\ newTask = EmptyForm
    /\ editingTask = NoEdit
    /\ isSubmitting = FALSE
    /\ toast = NoToast
    /\ calls = [c \in Calls |-> NoCall]
    /\ activeTab = AllTab
    /\ searchQuery = <<>>
    /\ clientCategories = DefaultCategories
    /\ newCategory = <<>>
    /\ now = 0
    /\ zone = "utc"

CategoryStep ==
    \E h \in Handlers, storeUp \in BOOLEAN :
        \/ GetCategories(h, storeUp)
        \/ \E body \in PostBodies : PostFindOne(h, body, storeUp)
        \/ PostSave(h, storeUp)
        \/ \E name \in NameStrings : DeleteFindOne(h, name, storeUp)
        \/ DeleteById(h, storeUp)

\* The Category service under concurrent requests.
Next == CategoryStep \/ Sent

\* A response written goes out; an awaited store operation ends and its
\* handler resumes, however many other requests are served meanwhile.
Fairness ==
    /\ WF_vars(Sent)
    /\ \A h \in Handlers :
          /\ SF_vars(\E storeUp \in BOOLEAN : PostSave(h, storeUp))
          /\ SF_vars(\E storeUp \in BOOLEAN : DeleteById(h, storeUp))

\* The bodies and names of the requests followed to their end: a missing, a
\* non-string, an empty, a whitespace-only and a proper name.
LiveBodies == {Undefined, Num, Str(<<>>), Str(<<" ">>), Str(<<"a">>)}
LiveNames  == {<<"a">>}

NextLive ==
    \/ \E h \in Handlers, storeUp \in BOOLEAN :
          \/ GetCategories(h, storeUp)
          \/ \E body \in LiveBodies : PostFindOne(h, body, storeUp)
          \/ PostSave(h, storeUp)
          \/ \E name \in LiveNames : DeleteFindOne(h, name, storeUp)
          \/ DeleteById(h, storeUp)
    \/ Sent

SpecLive == Init /\ [][NextLive]_vars /\ Fairness

Spec == Init /\ [][Next]_vars

\* Both collections: Category creates and deletes (concurrent), Task creates
\* and deletes.
StorePostNames == { <<"a">>, <<"b">> }
StoreDeleteNames == { <<"a">>, <<" ", "A">> }
StoreTaskBodies == { [title |-> <<"t">>, category |-> <<"a">>] }

NextStore ==
    \/ \E h \in Handlers, storeUp \in BOOLEAN :
        \/ \E name \in StorePostNames : PostFindOne(h, Str(name), storeUp)
        \/ PostSave(h, storeUp)
        \/ \E name \in StoreDeleteNames : DeleteFindOne(h, name, storeUp)
        \/ DeleteById(h, storeUp)
    \/ \E body \in StoreTaskBodies : TaskCreate(0, body, 0)
    \/ \E id \in 1..(MaxTasks + 1) : TaskDelete(0, id)
    \/ Sent

SpecStore == Init /\ [][NextStore]_vars

\* The Task service alone, under the requests of any clients.
CreateBodies ==
    { [title |-> <<"a">>],
      [title |-> <<" ", "a", " ">>, description |-> <<"d", " ">>, completed |-> TRUE,
       priority |-> "high", dueDate |-> Iso(1), category |-> <<"w">>],
      [title |-> <<" ">>],
      [description |-> <<"d">>],
      [title |-> <<"a">>, priority |-> "urgent"] }
UpdateBodies ==
    { [completed |-> TRUE],
      [title |-> <<"b", " ">>, dueDate |-> Null],
      [title |-> <<" ">>, priority |-> "low"],
      [priority |-> "urgent"],
      [_id |-> 9, createdAt |-> Iso(9), description |-> <<>>] }

NextTasks ==
    \/ TaskList(0)
    \/ \E body \in CreateBodies, t \in Clock : TaskCreate(0, body, t)
    \/ \E id \in 1..(MaxTasks + 1), body \in UpdateBodies : TaskUpdate(0, id, body)
    \/ \E id \in 1..(MaxTasks + 1) : TaskDelete(0, id)
    \/ Sent

SpecTasks == Init /\ [][NextTasks]_vars

\* The client's task handlers against the Task service, one call at a time,
\* beside the requests of another client.
NewTaskForms ==
    { [EmptyForm EXCEPT !.title = <<" ">>],
      [EmptyForm EXCEPT !.title = <<" ", "a">>, !.description = <<"d", " ">>,
                        !.priority = "high", !.dueDate = Date(1)] }
Edits == { <<"title", <<" ">> >>, <<"title", <<"b", " ">> >> }
OtherUpdateBodies == { [_id |-> 9, createdAt |-> Iso(9)] }
TaskCall == 1

NextClient ==
    \/ \E form \in NewTaskForms : SetNewTask(form)
    \/ HandleAddTask(TaskCall)
    \/ AddTaskSettled(TaskCall)
    \/ \E i \in 1..MaxTasks : ToggleTaskCompletion(TaskCall, i)
    \/ ToggleSettled(TaskCall)
    \/ SaveEditedTask(TaskCall)
    \/ EditSettled(TaskCall)
    \/ ServeCall(TaskCall, 0)
    \/ \E i \in 1..MaxTasks : StartEditTask(i)
    \/ \E e \in Edits : EditField(e[1], e[2])
    \/ TaskCreate(0, [title |-> <<" ">>], 0)
    \/ \E id \in 1..MaxTasks, body \in OtherUpdateBodies : TaskUpdate(0, id, body)
    \/ Sent

SpecClient == Init /\ [][NextClient]_vars

----------------------------------------------------------------------------
(* The client's calls of the Category API (services/api.ts) *)

\* createCategory: response.data.name of a 2xx response.
createCategory(resp) == resp.doc.name

----------------------------------------------------------------------------
(* Properties of the Category service *)

Names(coll) == {coll[i].name : i \in 1..Len(coll)}

\* This step writes the response of a POST whose body carries a string name.
PostResponds ==
    /\ response = NoResponse
    /\ response'.op = "post"
    /\ response'.arg.t = "string"

\* C1: in every reachable state no two Category records have the same
\* lowercased name, whatever the interleaving of the requests' awaits.
C1_UniqueLowercasedNames ==
    \A i, j \in 1..Len(categories) :
        i # j => toLowerCase(categories[i].name) # toLowerCase(categories[j].name)

\* Two creates of one name (up to case and whitespace) both passed their
\* findOne; the second to save was refused by the unique index.
C1_Witness ==
    /\ response.op = "post"
    /\ response.message = "E11000 duplicate key"
    /\ response.arg.v = <<" ", "A">>
    /\ <<"a">> \in Names(categories)

\* C2: a create whose lowercased name equals a stored name ends with status
\* 400 and leaves the collection as it was.
C2_DuplicateCreateRejected ==
    [][ (PostResponds /\ toLowerCase(response'.arg.v) \in Names(categories))
        => (response'.status = 400 /\ categories' = categories) ]_vars

\* "A" was refused while "a" is stored.
C2_Witness ==
    /\ response.op = "post"
    /\ response.arg = Str(<<"A">>)
    /\ response.status = 400
    /\ response.message = "Category already exists"
    /\ <<"a">> \in Names(categories)

\* C3: a successful create appends exactly one record, named the input
\* lowercased and trimmed; createCategory returns that stored name; and the
\* create is refused as a duplicate exactly on that normalised name.
C3_CreateStoresNormalisedName ==
    [][ PostResponds =>
        LET n == toLowerCase(trim(response'.arg.v))
        IN /\ response'.status = 201 =>
                /\ Len(categories') = Len(categories) + 1
                /\ SubSeq(categories', 1, Len(categories)) = categories
                /\ categories'[Len(categories')].name = n
                /\ createCategory(response') = n
                /\ n \notin Names(categories)
           /\ response'.message \in {"Category already exists", "E11000 duplicate key"}
                => n \in Names(categories)
           /\ response'.status # 201 => categories' = categories
           /\ (n \in Names(categories)) => response'.status = 400
      ]_vars

\* " A" was created and stored as "a".
C3_Witness ==
    /\ response.op = "post"
    /\ response.status = 201
    /\ response.arg = Str(<<" ", "A">>)
    /\ createCategory(response) = <<"a">>
    /\ <<"a">> \in Names(categories)

----------------------------------------------------------------------------
(* Properties of deletion *)

\* Handler h runs the lookup of a DELETE /:name in this step.
DeleteLookup(h) ==
    /\ handlers[h].pc = "idle"
    /\ response = NoResponse
    /\ \/ handlers'[h].pc = "remove"
       \/ response'.op = "delete" /\ response'.h = h

\* The name that lookup was asked for.
LookupName(h) ==
    IF handlers'[h].pc = "remove" THEN handlers'[h].arg.v ELSE response'.arg.v

\* The lookup ended the request with this status.
LookupStatus(h, code) == response'.op = "delete" /\ response'.status = code

\* Handler h runs findByIdAndDelete and responds in this step.
DeleteRemoves(h) == handlers[h].pc = "remove" /\ handlers'[h].pc = "idle"

\* This step writes the response of a DELETE /tasks/{id}.
TaskDeleteResponds == response = NoResponse /\ response'.op = "tasks.delete"

\* Deleting a Task id that is not stored ends in 404 and changes nothing.
TaskDeleteNotFound ==
    (TaskDeleteResponds /\ ~HasTask(tasksDb, response'.arg.id))
        => (response'.status = 404 /\ tasksDb' = tasksDb)

\* C4 (as claimed): a Category delete ends in 404 exactly when no stored
\* category has the lowercased request name, and otherwise removes exactly
\* one record.
C4_AsClaimed ==
    [][ /\ TaskDeleteNotFound
        /\ \A h \in Handlers :
            /\ (DeleteLookup(h) /\ ~LookupStatus(h, 500)) =>
                /\ LookupStatus(h, 404)
                      <=> toLowerCase(LookupName(h)) \notin Names(categories)
                /\ categories' = categories
            /\ (DeleteRemoves(h) /\ response'.status = 200) =>
                  Len(categories') = Len(categories) - 1
      ]_vars

\* C4 (amended): the request name is matched lowercased and trimmed; a delete
\* the store answers ends in 404 exactly when its lookup finds no category of
\* that name, leaving the collection unchanged; otherwise it removes the record
\* it found, and only that one (nothing when a concurrent delete removed it
\* first).  A Task delete of an id not stored ends in 404 and changes nothing.
C4_DeleteNotFound ==
    [][ /\ TaskDeleteNotFound
        /\ \A h \in Handlers :
            /\ (DeleteLookup(h) /\ ~LookupStatus(h, 500)) =>
                /\ LookupStatus(h, 404)
                      <=> toLowerCase(trim(LookupName(h))) \notin Names(categories)
                /\ categories' = categories
            /\ (DeleteRemoves(h) /\ response'.status = 200) =>
                /\ categories' = SelectSeq(categories,
                                    LAMBDA d : d._id # handlers[h].found)
                /\ Len(categories') >= Len(categories) - 1
                /\ \A i \in 1..Len(categories) :
                      categories[i]._id = handlers[h].found
                          => categories[i].name
                                = toLowerCase(trim(handlers[h].arg.v))
            /\ (DeleteRemoves(h) /\ response'.status # 200) =>
                  categories' = categories
      ]_vars

\* DELETE of " A" removed the stored "a" and left "b".
C4_Witness ==
    /\ response.op = "delete"
    /\ response.status = 200
    /\ response.arg = Str(<<" ", "A">>)
    /\ Names(categories) = {<<"b">>}

\* This step belongs to a DELETE /:name of the Category routes.
CategoryDeleteStep == \E h \in Handlers : DeleteLookup(h) \/ DeleteRemoves(h)

\* C5: no step of a Category delete changes the Task collection; Tasks of the
\* deleted category keep their category string.
C5_CategoryDeleteKeepsTasks ==
    [][ CategoryDeleteStep => tasksDb' = tasksDb ]_vars

\* Category "a" was deleted and a Task of category "a" is still stored.
C5_Witness ==
    /\ response.op = "delete"
    /\ response.status = 200
    /\ <<"a">> \notin Names(categories)
    /\ \E i \in 1..Len(tasksDb) : tasksDb[i].category = <<"a">>

----------------------------------------------------------------------------
(* The view filter over task lists the client can hold *)

MaxListed == 2

\* Priority, category and description of the tasks listed: categories are
\* free strings, so a category may carry the name of a fixed tab; a Task
\* created without a description has none (the schema gives no default).
ViewKinds ==
    { [priority |-> "high", category |-> work, description |-> <<"B">>],
      [priority |-> "low", category |-> personal, description |-> <<>>],
      [priority |-> "low", category |-> CompletedTab, description |-> <<"B">>],
      [priority |-> "low", category |-> ActiveTab],
      [priority |-> "low", category |-> HighPriorityTab, description |-> <<>>] }

\* Tasks as fetchTasks delivers them.
ViewTasks ==
    { [f \in DOMAIN k \cup {"_id", "title", "completed", "dueDate", "createdAt"} |->
          CASE f = "_id" -> 1
            [] f = "title" -> <<"a">>
            [] f = "completed" -> c
            [] f = "dueDate" -> Null
            [] f = "createdAt" -> Date(0)
            [] OTHER -> k[f]] : k \in ViewKinds, c \in BOOLEAN }

\* Task lists the client can hold: the store gives every Task its own _id.
ViewLists ==
    UNION { { [i \in 1..n |-> [l[i] EXCEPT !._id = i]] : l \in [1..n -> ViewTasks] } :
              n \in 0..MaxListed }

SearchQueries == {<<>>, <<"a">>, <<"A">>, <<"b">>}

TabValues == {AllTab, ActiveTab, CompletedTab, HighPriorityTab, personal, work}

InitFilter ==
    /\ categories = <<>>
    /\ handlers = [h \in Handlers |-> Idle]
    /\ response = NoResponse
    /\ tasksDb = <<>>
    /\ nextTaskId = 1
    /\ tasks \in ViewLists
    /\ newTask = EmptyForm
    /\ editingTask = NoEdit
    /\ isSubmitting = FALSE
    /\ toast = NoToast
    /\ calls = [c \in Calls |-> NoCall]
    /\ activeTab = AllTab
    /\ searchQuery = <<>>
    /\ clientCategories = DefaultCategories
    /\ newCategory = <<>>
    /\ now = 0
    /\ zone = "utc"

NextFilter ==
    \/ \E tab \in TabValues : SetActiveTab(tab)
    \/ \E q \in SearchQueries : SetSearchQuery(q)

SpecFilter == InitFilter /\ [][NextFilter]_vars

----------------------------------------------------------------------------
(* Due-date classification of a listed task, in every zone, at every hour *)

DueDates(z) == {Null} \cup {Date(h) : h \in 0..LastHour(z)}

InitDue ==
    /\ categories = <<>>
    /\ handlers = [h \in Handlers |-> Idle]
    /\ response = NoResponse
    /\ tasksDb = <<>>
    /\ nextTaskId = 1
    /\ zone \in Zones
    /\ \E d \in DueDates(zone) :
          tasks = << [_id |-> 1, title |-> <<"a">>, description |-> <<>>,
                      completed |-> FALSE, priority |-> "medium", dueDate |-> d,
                      category |-> personal, createdAt |-> Date(0)] >>
    /\ newTask = EmptyForm
    /\ editingTask = NoEdit
    /\ isSubmitting = FALSE
    /\ toast = NoToast
    /\ calls = [c \in Calls |-> NoCall]
    /\ activeTab = AllTab
    /\ searchQuery = <<>>
    /\ clientCategories = DefaultCategories
    /\ newCategory = <<>>
    /\ now = 0

NextDue == Tick

SpecDue == InitDue /\ [][NextDue]_vars

----------------------------------------------------------------------------
(* One client from its mount on: the initial load in flight, the handlers  *)
(* used while and after it, requests that fail                              *)

SessionForms == { [EmptyForm EXCEPT !.title = <<"a">>] }
SessionEdits == { <<"title", <<"b">>>> }

\* After the mount effect: loadData has sent its two requests.
InitSession ==
    /\ categories = <<>>
    /\ handlers = [h \in Handlers |-> Idle]
    /\ response = NoResponse
    /\ tasksDb = <<>>
    /\ nextTaskId = 1
    /\ tasks = <<>>
    /\ newTask = EmptyForm
    /\ editingTask = NoEdit
    /\ isSubmitting = FALSE
    /\ toast = NoToast
    /\ calls = [c \in Calls |->
                  CASE c = TasksCall -> Call("fetchTasks", 0, NoBody)
                    [] c = CategoriesCall -> Call("fetchCategories", 0, NoBody)
                    [] OTHER -> NoCall]
    /\ activeTab = AllTab
    /\ searchQuery = <<>>
    /\ clientCategories = DefaultCategories
    /\ newCategory = <<>>
    /\ now = 0
    /\ zone = "utc"

\* The task list is rendered, with its checkboxes and buttons, once the load
\* has ended; the edit dialog is modal, and here it is opened only when no
\* request of a handler is in flight, so that no request of the session
\* fails.
ListStep ==
    /\ ~Loading
    /\ editingTask = NoEdit
    /\ \E i \in 1..MaxTasks :
          \/ ToggleTaskCompletion(HandlerCall, i)
          \/ HandleDeleteTask(HandlerCall, i)
          \/ FreeCall(HandlerCall) /\ StartEditTask(i)

NextSession ==
    \/ \E form \in SessionForms : SetNewTask(form)
    \/ HandleAddTask(HandlerCall)
    \/ AddTaskSettled(HandlerCall)
    \/ ListStep
    \/ ToggleSettled(HandlerCall)
    \/ DeleteSettled(HandlerCall)
    \/ \E e \in SessionEdits : EditField(e[1], e[2])
    \/ SaveEditedTask(HandlerCall)
    \/ EditSettled(HandlerCall)
    \/ LoadSettled
    \/ \E c \in {TasksCall, HandlerCall} : ServeCall(c, 0)
    \/ FetchCategoriesServed(CategoriesCall, 1, TRUE)
    \/ Sent

SpecSession == InitSession /\ [][NextSession]_vars

----------------------------------------------------------------------------
(* The client's five actions after a load, with requests that fail *)

ActionNames == { <<" ", "A">>, <<"a">> }
MaxAdds == 1

\* The handlers take the i-th task shown.
TaskAction(i) ==
    \/ ToggleTaskCompletion(HandlerCall, i)
    \/ HandleDeleteTask(HandlerCall, i)
    \/ StartEditTask(i)

\* The user adds a task, as long as the store has given out few ids.
AddAction == nextTaskId <= MaxAdds /\ HandleAddTask(HandlerCall)

NextActions ==
    \/ \E form \in SessionForms : SetNewTask(form)
    \/ AddAction
    \/ AddTaskSettled(HandlerCall)
    \/ \E i \in 1..MaxTasks : TaskAction(i)
    \/ ToggleSettled(HandlerCall)
    \/ DeleteSettled(HandlerCall)
    \/ \E e \in SessionEdits : EditField(e[1], e[2])
    \/ SaveEditedTask(HandlerCall)
    \/ EditSettled(HandlerCall)
    \/ \E name \in ActionNames : SetNewCategory(name)
    \/ HandleAddCategory(HandlerCall)
    \/ AddCategorySettled(HandlerCall)
    \/ ServeCall(HandlerCall, 0)
    \/ \E storeUp \in BOOLEAN :
          \/ PostCategoryServed(HandlerCall, 1, storeUp)
          \/ PostSave(1, storeUp)
    \/ NetworkError(HandlerCall)
    \/ Sent

SpecActions == Init /\ [][NextActions]_vars

----------------------------------------------------------------------------
(* Properties of the Task service and of the client's task handlers *)

\* This step writes the response of a Task request of the given kind.
TaskResponds(op) == response = NoResponse /\ response'.op = op

Blank(body) == "title" \in DOMAIN body /\ trim(body.title) = <<>>

\* C6: a create whose title is empty or only whitespace ends in 400
\* ValidationError and stores nothing; handleAddTask with such a title in the
\* form issues no create request and leaves the client's task list unchanged.
C6_BlankTitleRejected ==
    [][ /\ (TaskResponds("tasks.post") /\ Blank(response'.arg.body)) =>
              /\ response'.status = 400
              /\ response'.message = "ValidationError"
              /\ tasksDb' = tasksDb
        /\ trim(newTask.title) = <<>> =>
              /\ \A c \in Calls : calls'[c].kind = "add" => calls[c].kind = "add"
              /\ (calls' = calls /\ response' = response) => tasks' = tasks
        /\ \A c \in Calls : calls'[c].kind = "add" => ~Blank(calls'[c].body)
      ]_vars

\* No Task was ever created: a blank create of another client was refused,
\* and handleAddTask on the blank form raised its error and sent nothing.
C6_Witness ==
    /\ response.op = "tasks.post"
    /\ response.status = 400
    /\ newTask.title = <<" ">>
    /\ toast = ErrorToast
    /\ nextTaskId = 1
    /\ tasks = <<>>
    /\ \A c \in Calls : calls[c] = NoCall

\* The stored Task with this id.
Stored(coll, id) == {coll[i] : i \in {j \in 1..Len(coll) : coll[j]._id = id}}

\* C7: an update changes only the fields its body supplies; _id and createdAt
\* never change; the bodies toggleTaskCompletion and saveEditedTask send carry
\* neither _id nor createdAt.
C7_UpdateChangesOnlySupplied ==
    [][ /\ TaskResponds("tasks.patch") =>
              /\ Len(tasksDb') = Len(tasksDb)
              /\ \A i \in 1..Len(tasksDb) :
                    /\ tasksDb'[i]._id = tasksDb[i]._id
                    /\ tasksDb'[i].createdAt = tasksDb[i].createdAt
                    /\ tasksDb[i]._id # response'.arg.id => tasksDb'[i] = tasksDb[i]
                    /\ DOMAIN tasksDb'[i]
                          \subseteq DOMAIN tasksDb[i] \cup DOMAIN response'.arg.body
                    /\ \A f \in DOMAIN tasksDb[i] \ DOMAIN response'.arg.body :
                          f \in DOMAIN tasksDb'[i] /\ tasksDb'[i][f] = tasksDb[i][f]
        /\ \A c \in Calls :
              /\ calls'[c].kind = "toggle" => DOMAIN calls'[c].body = {"completed"}
              /\ calls'[c].kind = "edit" =>
                    /\ DOMAIN calls'[c].body \cap {"_id", "createdAt"} = {}
                    /\ DOMAIN calls'[c].body \subseteq TaskPaths
      ]_vars

\* saveEditedTask changed the title of Task 1 to "b"; its description, set at
\* creation, is still stored.
C7_Witness ==
    /\ response.op = "tasks.patch"
    /\ response.status = 200
    /\ response.to # 0
    /\ calls[response.to].kind = "edit"
    /\ \E d \in Stored(tasksDb, response.arg.id) :
          d.title = <<"b">> /\ d.description = <<"d">> /\ d.priority = "high"

\* The request body would leave a Task without a title or with a priority
\* outside the enum.
WouldBreak(op, body) ==
    \/ "priority" \in DOMAIN body /\ body.priority \notin Priorities
    \/ Blank(body)
    \/ op = "tasks.post" /\ "title" \notin DOMAIN body

\* C8: every stored Task has a priority of the enum and a title that is not
\* empty after trimming; a create or update that would break this is refused
\* and changes nothing.
C8_StoredTasksValid ==
    [][ /\ \A i \in 1..Len(tasksDb') :
              /\ tasksDb'[i].priority \in Priorities
              /\ "title" \in DOMAIN tasksDb'[i]
              /\ trim(tasksDb'[i].title) # <<>>
        /\ \A op \in {"tasks.post", "tasks.patch"} :
              (TaskResponds(op) /\ WouldBreak(op, response'.arg.body)) =>
                  /\ response'.status \in {400, 404}
                  /\ tasksDb' = tasksDb
      ]_vars

\* An update to priority "urgent" of a stored Task was refused.
C8_Witness ==
    /\ response.op = "tasks.patch"
    /\ response.status = 400
    /\ response.arg.body = [priority |-> "urgent"]
    /\ HasTask(tasksDb, response.arg.id)

\* What createTask returns for the response written; what fetchTasks would
\* return right now.
Created == ParseTask(response.doc)
Listed  == fetchTasks(ListJSON(tasksDb))

\* The fields a create request omits take the schema's defaults.
OmittedTakeDefaults(body, task) ==
    /\ "completed" \notin DOMAIN body => task.completed = FALSE
    /\ "priority" \notin DOMAIN body => task.priority = "medium"
    /\ "dueDate" \notin DOMAIN body => task.dueDate = Null
    /\ "category" \notin DOMAIN body => task.category = personal

\* C9 (as claimed): right after a create, the list holds the created record,
\* equal to the request in every submitted field.
C9_AsClaimed ==
    (response.op = "tasks.post" /\ response.status = 201) =>
        \E i \in 1..Len(Listed) :
            /\ Listed[i]._id = Created._id
            /\ Listed[i].createdAt = Created.createdAt
            /\ \A f \in DOMAIN response.arg.body \cap TaskPaths :
                  f \in DOMAIN Listed[i] /\ ToWire(Listed[i])[f] = response.arg.body[f]
            /\ OmittedTakeDefaults(response.arg.body, Listed[i])

\* A submitted field as the store keeps it: title and description trimmed.
AsStored(f, v) == IF f \in {"title", "description"} THEN trim(v) ELSE v

\* C9 (amended): right after a create, the list holds the created record: it
\* is what createTask returned, with the server's _id and createdAt; every
\* submitted field is equal to the request, title and description up to
\* trimming; omitted fields have the defaults.
C9_CreateThenList ==
    (response.op = "tasks.post" /\ response.status = 201) =>
        \E i \in 1..Len(Listed) :
            /\ Listed[i] = Created
            /\ Listed[i]._id = nextTaskId - 1
            /\ Listed[i].createdAt.t = "date"
            /\ \A j \in 1..Len(Listed) : j # i => Listed[j]._id # Listed[i]._id
            /\ \A f \in DOMAIN response.arg.body \cap TaskPaths :
                  /\ f \in DOMAIN Listed[i]
                  /\ ToWire(Listed[i])[f] = AsStored(f, response.arg.body[f])
            /\ OmittedTakeDefaults(response.arg.body, Listed[i])

\* A create that sent only a title was stored with the defaults.
C9_Witness ==
    /\ response.op = "tasks.post"
    /\ response.status = 201
    /\ response.arg.body = [title |-> <<"a">>]
    /\ Created.priority = "medium"
    /\ Created.category = personal
    /\ \E i \in 1..Len(Listed) : Listed[i] = Created

\* The tab matching as stated: a fixed tab tests its own field only, any
\* other tab value tests the category.
TabMatchStated(task, tab) ==
    CASE tab = AllTab          -> TRUE
      [] tab = ActiveTab       -> ~task.completed
      [] tab = CompletedTab    -> task.completed
      [] tab = HighPriorityTab -> task.priority = "high"
      [] OTHER                 -> tab = task.category

\* C10: every task matches the selected tab exactly when: the tab is all; or
\* active and the task is not completed; or completed and the task is
\* completed; or high-priority and the priority is high; or the tab is any
\* other value and equals the task's category -- whatever the category of the
\* task is under the fixed tabs.
C10_TabMatchAsClaimed ==
    \A i \in 1..Len(tasks) :
        matchesTab(tasks[i], activeTab) <=> TabMatchStated(tasks[i], activeTab)

\* A task matches the search as stated: the lowercased query occurs in the
\* lowercased title or in the lowercased description, if it has one.
SearchMatchStated(task, q) ==
    \/ includes(toLowerCase(task.title), toLowerCase(q))
    \/ /\ "description" \in DOMAIN task
       /\ includes(toLowerCase(task.description), toLowerCase(q))

\* C11: the filtered view is the subsequence, in list order, of the tasks
\* that match the tab and the search (the lowercased query occurs in the
\* lowercased title or description; the empty query matches every task,
\* also one without a description); a view is always computed.
C11_ViewAsClaimed ==
    filteredTasks(tasks, activeTab, searchQuery) =
        [threw |-> FALSE,
         view |-> SelectSeq(tasks, LAMBDA task :
                      /\ matchesTab(task, activeTab)
                      /\ SearchMatchStated(task, searchQuery))]

\* The class as stated, from the calendar days of the due date and of now.
DueClassStated(d, t) ==
    IF d < t THEN "overdue"
    ELSE IF d = t THEN "today"
    ELSE IF d - t <= 2 THEN "soon"
    ELSE "future"

\* C12: for a due date on calendar day d, looked at on calendar day t,
\* getDueDateStatus gives overdue iff d < t, today iff d = t, soon iff d - t
\* is 1 or 2, future iff d - t >= 3, and null iff the due date is null; the
\* class is a function of d and t alone.
C12_DueClassAsClaimed ==
    \A i \in 1..Len(tasks) :
        getDueDateStatus(tasks[i].dueDate, now, zone) =
            IF tasks[i].dueDate = Null THEN "null"
            ELSE DueClassStated(DayOf(zone, tasks[i].dueDate.v), DayOf(zone, now))

\* The step ends the handler that awaited call c, whose request succeeded or
\* failed.
Settles(c) == calls[c].phase = "replied" /\ calls'[c] = NoCall
Succeeded(c) == calls[c].status \in {200, 201}

TaskActionKinds == {"add", "toggle", "edit", "delete"}

\* C13: no optimistic updates.  Of the steps of add task, toggle completion,
\* save edit, delete task and add category, only the one that follows the
\* success of the request changes the task list or the category list:
\* starting an action changes neither, and the step that follows a failed
\* request changes neither and raises the failure notification.
C13_NoOptimisticUpdate ==
    [][ /\ tasks' # tasks =>
              \E c \in Calls : /\ Settles(c) /\ Succeeded(c)
                               /\ calls[c].kind \in TaskActionKinds
        /\ clientCategories' # clientCategories =>
              \E c \in Calls : /\ Settles(c) /\ Succeeded(c)
                               /\ calls[c].kind = "addCategory"
        /\ \A c \in Calls :
              (Settles(c) /\ ~Succeeded(c)) =>
                  /\ tasks' = tasks
                  /\ clientCategories' = clientCategories
                  /\ toast' = ErrorToast
      ]_vars

\* The server holds "a", which the client added as " A" and shows as " a";
\* the client's next request, for "a", failed: its list is as it was, the
\* dialog still holds the text, and the failure was notified.
C13_Witness ==
    /\ toast = ErrorToast
    /\ calls[HandlerCall] = NoCall
    /\ ~isSubmitting
    /\ newCategory = <<"a">>
    /\ clientCategories = Append(DefaultCategories, <<" ", "a">>)
    /\ Names(categories) = {<<"a">>}
    /\ newTask.title = <<"a">>

\* This step writes the response of a Category request.
CategoryResponds == response = NoResponse /\ response' # NoResponse /\ response'.h # 0

\* C14: every Category request that was taken up ends with one response,
\* whose status is 200, 201, 400, 404 or 500 (a TypeError on a missing or
\* non-string name included), and its handler ends with it; only a step that
\* responds 200 or 201 changes the collection, so a request that ends with an
\* error status has changed nothing; an empty or whitespace-only name is
\* answered 400 and stores nothing.
C14_EveryRequestAnswered ==
    /\ [][ /\ CategoryResponds =>
                 /\ response'.status \in {200, 201, 400, 404, 500}
                 /\ handlers'[response'.h] = Idle
                 /\ \A h \in Handlers \ {response'.h} : handlers'[h] = handlers[h]
           /\ categories' # categories =>
                 CategoryResponds /\ response'.status \in {200, 201}
           /\ ~CategoryResponds => response' = NoResponse
           /\ (/\ CategoryResponds
               /\ response'.op = "post"
               /\ response'.arg.t = "string"
               /\ trim(response'.arg.v) = <<>>) =>
                 /\ response'.status = 400
                 /\ response'.message \in {"ValidationError", "store error"}
         ]_vars
    /\ \A h \in Handlers : (handlers[h].pc # "idle") ~> (handlers[h].pc = "idle")

\* A create with a whitespace-only name was refused by the validator.
C14_Witness ==
    /\ response.op = "post"
    /\ response.arg = Str(<<" ">>)
    /\ response.status = 400
    /\ response.message = "ValidationError"
    /\ handlers[response.h] = Idle

\* C15: a list request that succeeds returns the names of all stored
\* categories, each once, in ascending lexicographic order, which is what
\* fetchCategories hands to the client; a list request, successful or not,
\* leaves the collection as it is.
C15_ListSortedNames ==
    [][ (CategoryResponds /\ response'.op = "get") =>
          /\ categories' = categories
          /\ response'.status = 200 =>
                LET names == fetchCategories(response')
                IN /\ Len(names) = Len(categories)
                   /\ {names[i] : i \in 1..Len(names)} = Names(categories)
                   /\ \A i \in 1..(Len(names) - 1) : StrLess(names[i], names[i + 1])
      ]_vars

\* "b" was created before "a"; the list gives "a" first.
C15_Witness ==
    /\ response.op = "get"
    /\ response.status = 200
    /\ response.list = << <<"a">>, <<"b">> >>
    /\ Len(categories) = 2
    /\ categories[1].name = <<"b">>

\* No request is in flight and no handler is waiting.
Quiescent == response = NoResponse /\ \A c \in Calls : calls[c] = NoCall

\* No request of the session fails.
NoRequestFails == \A c \in Calls : calls[c].phase = "replied" => Succeeded(c)

\* The tasks of a list, as a set.
TaskSet(list) == {list[i] : i \in 1..Len(list)}

\* C16: whenever the load and every create, update and delete call have
\* settled, all successfully, the tasks in the client's list are the tasks the
\* server stores, field by field.
C16_ConvergedAsClaimed ==
    Quiescent => TaskSet(tasks) = TaskSet(fetchTasks(ListJSON(tasksDb)))

\* C17: the client's task list never holds two entries with the same _id.
C17_UniqueIdsAsClaimed ==
    \A i, j \in 1..Len(tasks) : tasks[i]._id = tasks[j]._id => i = j

\* The server would refuse the name as a duplicate of a category the client
\* shows: the stored category its lookup finds is one of the client's list.
ServerDuplicateOfShown(name) ==
    LET found == findOne(categories, toLowerCase(name))
    IN found # NoDoc /\ Includes(clientCategories, found.name)

\* C18: the step that ends a successful handleAddCategory appends the name
\* the server stored for the request (what createCategory returns), and the
\* client's list then has no name twice; the client's duplicate check refuses
\* a name exactly when the server would refuse it as a duplicate of a
\* category the client shows.
C18_AppendedAsClaimed ==
    [][ /\ \A c \in Calls :
              (Settles(c) /\ Succeeded(c) /\ calls[c].kind = "addCategory") =>
                  /\ clientCategories' =
                         Append(clientCategories, createCategory(calls[c]))
                  /\ \A i, j \in 1..Len(clientCategories') :
                         clientCategories'[i] = clientCategories'[j] => i = j
        /\ trim(newCategory) # <<>> =>
              (Includes(clientCategories, toLowerCase(newCategory))
                   <=> ServerDuplicateOfShown(newCategory))
      ]_vars

====
